---- MODULE Spec2Model ----
(***************************************************************************)
(* Model of scvelo.plotting.velocity (src/scvelo/plotting/velocity.py):    *)
(* gene selection, layer / fit resolution, layout arithmetic and the       *)
(* per-gene render loop, over a caller-owned dataset that survives across  *)
(* invocations.                                                            *)
(*                                                                         *)
(* Names (layer keys, fit names, per-gene parameter keys) are sequences of *)
(* tokens, so that the string concatenations of the source (fit+'_gamma',  *)
(* 'variance_'+fit) are sequence concatenations.  Group labels and group   *)
(* tokens are sequences of characters, so that Python's `g in group` is a  *)
(* substring test.  Genes are integers; the dataset holds 1..NumVars.      *)
(***************************************************************************)
EXTENDS Integers, Sequences, FiniteSets, TLC

\* ------------------------------------------------------------- bounds
NumVars   == 10   \* genes in the dataset (adata.var_names = 1..NumVars)
MaxLen    == 3    \* longest explicit var_names list
MaxNcols  == 2    \* largest caller-supplied ncols
BigGroups == 11   \* categories of the grouping "batch"

\* -------------------------------------------------- program constants
RankNGenes  == 10   \* n_genes=10 handed to rank_velocity_genes
TopTotal    == 10   \* the literal 10 of int(10 / idx.sum())
StochPanels == 2    \* (mode == 'stochastic') * 2

\* ------------------------------------------------- argument encoding
\* A Python argument that may be None, a str or a list.
IsNone(x) == x.tag = "none"
IsStr(x)  == x.tag = "str"

GeneStr(g)   == [tag |-> "str",  str |-> g,   list |-> <<>>]
GeneList(s)  == [tag |-> "list", str |-> 0,   list |-> s]
NoGenes      == [tag |-> "none", str |-> 0,   list |-> <<>>]
NameStr(n)   == [tag |-> "str",  str |-> n,   list |-> <<>>]
NameList(s)  == [tag |-> "list", str |-> <<>>, list |-> s]
NoName       == [tag |-> "none", str |-> <<>>, list |-> <<>>]
KeyStr(k)    == [tag |-> "str",  str |-> k]
NoKey        == [tag |-> "none", str |-> ""]
IntArg(n)    == [tag |-> "int",  int |-> n]
NoInt        == [tag |-> "none", int |-> 0]

\* ------------------------------------------------------------- names
Spliced   == <<"spliced">>
Unspliced == <<"unspliced">>
Ms        == <<"Ms">>
Mu        == <<"Mu">>
X         == <<"X">>
Velocity  == <<"velocity">>
Dynamics  == <<"dynamics">>
AllName   == <<"all">>
GammaKey(fit)      == fit \o <<"gamma">>
VarianceLayer(fit) == <<"variance">> \o fit

\* Membership of a name in a list of names (Python `x in keys`).
InSeq(x, s) == \E i \in 1..Len(s) : s[i] = x

\* Sequences over S of length at most n.
SeqUpTo(S, n) == UNION {[1..k -> S] : k \in 0..n}

\* ------------------------------------------------------------ dataset
VarNames   == 1..NumVars
AbsentGene == NumVars + 1

ClusterCats == << <<"a">>, <<"a", "b">>, <<"b", "c">> >>
BatchCats   == [i \in 1..BigGroups |-> [j \in 1..i |-> "g"]]
ObsKeys     == {"clusters", "batch"}
Categories(key) == IF key = "clusters" THEN ClusterCats ELSE BatchCats

\* The datasets a caller may hand in: layer keys in insertion order, per-gene
\* parameter keys, and the velocity data the ranking depends on (abstracted
\* to the stride between the rankings of consecutive groups).
Datasets ==
  { [layers |-> <<Spliced, Unspliced, Ms, Mu, Velocity, VarianceLayer(Velocity)>>,
     var    |-> {GammaKey(Velocity), Velocity \o <<"beta">>},
     stride |-> 1],
    [layers |-> <<Spliced, Unspliced, Velocity>>,
     var    |-> {GammaKey(Velocity)},
     stride |-> 0],
    [layers |-> <<Spliced, Unspliced>>,
     var    |-> {},
     stride |-> 5],
    [layers |-> <<Spliced, Unspliced, Velocity, VarianceLayer(Velocity),
                  VarianceLayer(Dynamics)>>,
     var    |-> {GammaKey(Velocity), GammaKey(Dynamics)},
     stride |-> 2] }

NoCache == [present |-> FALSE, groupby |-> "", names |-> <<>>]

VARIABLES
  adata,          \* [layers, var, stride, uns]: the caller's dataset
  pc,             \* position of the invocation
  groupby,        \* the groupby argument of the latest invocation
  rank_invoked,   \* the select step just taken called rank_velocity_genes
  args,           \* var_names / groups arguments, live until line 88
  picked,         \* var_names before pd.unique (lines 79, 83, 85)
  var_names,      \* var_names after pd.unique (line 88)
  layers,         \* resolved extra layers (line 92)
  fits,           \* resolved fit names (line 95)
  stochastic_fits,\* line 96
  mode,           \* "stochastic" or "none"
  nplts, nrows, ncols,  \* lines 98-101
  call,           \* [ncols, kwargs]: the caller's ncols and keyword arguments
  kwargs,         \* [xlabel, ylabel]: the keyword bag, mutated in the loop
  v,              \* loop index of line 110
  log             \* render calls issued on the figure of this invocation

vars == <<adata, pc, groupby, rank_invoked, args, picked, var_names, layers, fits,
          stochastic_fits, mode, nplts, nrows, ncols, call, kwargs, v, log>>

\* ------------------------------------------------------ gene selection
\* pd.unique: first occurrences, in order.
RECURSIVE Unique(_)
Unique(s) ==
  IF s = <<>> THEN <<>>
  ELSE LET r == Unique(SubSeq(s, 1, Len(s) - 1))
           x == s[Len(s)]
       IN  IF InSeq(x, r) THEN r ELSE Append(r, x)

\* isinstance(groupby, str) and groupby in adata.obs.keys()
ValidGroupby(gb) == IsStr(gb) /\ gb.str \in ObsKeys

\* The cache test dropped: the ranking is recomputed by every invocation.
NeedRankAlways(uns, key) == TRUE

\* 'rank_velocity_genes' not in adata.uns.keys() or ...['params']['groupby'] != groupby
NeedRank(uns, key) == ~uns.present \/ uns.groupby # key

\* The ranking collaborator: per group of the grouping, RankNGenes candidate
\* genes of the dataset in rank order, stored on the dataset with its key.
RankedGene(ad, g, k) == (((g - 1) * ad.stride + (k - 1)) % NumVars) + 1
rank_velocity_genes(ad, key) ==
  [present |-> TRUE,
   groupby |-> key,
   names   |-> [g \in 1..Len(Categories(key)) |->
                  [k \in 1..RankNGenes |-> RankedGene(ad, g, k)]]]

\* names[:, 0]
FirstColumn(names) == [g \in 1..Len(names) |-> names[g][1]]

\* Python `g in group` on strings.
IsSubstr(g, group) ==
  \E i \in 0..(Len(group) - Len(g)) : SubSeq(group, i + 1, i + Len(g)) = g

\* groups = [groups] if isinstance(groups, str) else groups
GroupTokens(groups) == IF IsStr(groups) THEN <<groups.str>> ELSE groups.list

\* idx = [any(g in group for g in groups) for group in categories]
MatchIdx(tokens, cats) ==
  [i \in 1..Len(cats) |-> \E j \in 1..Len(tokens) : IsSubstr(tokens[j], cats[i])]

\* idx.sum()
IdxSum(idx) == Cardinality({i \in 1..Len(idx) : idx[i]})

\* The quotient rounded up instead of truncated.
TopKRoundedUp(m) == (TopTotal + m - 1) \div m

\* int(10 / idx.sum()), for idx.sum() > 0
TopK(m) == TopTotal \div m

\* np.hstack(names[idx, :k])
RECURSIVE HStack(_, _, _, _)
HStack(names, idx, k, i) ==
  IF i > Len(names) THEN <<>>
  ELSE (IF idx[i] THEN SubSeq(names[i], 1, k) ELSE <<>>) \o HStack(names, idx, k, i + 1)

\* Lines 77-83: the genes picked from the ranking table; raised when the
\* subset matches no group (int(10 / 0)).
GroupSelect(names, groups, cats) ==
  IF IsNone(groups)
  THEN [raised |-> FALSE, picked |-> FirstColumn(names)]
  ELSE LET idx == MatchIdx(GroupTokens(groups), cats)
           m   == IdxSum(idx)
       IN  IF m = 0
           THEN [raised |-> TRUE, picked |-> <<>>]
           ELSE [raised |-> FALSE, picked |-> HStack(names, idx, TopK(m), 1)]

\* Line 85.
ExplicitSelect(vn) ==
  IF IsStr(vn) THEN <<vn.str>>
  ELSE SelectSeq(vn.list, LAMBDA var : var \in VarNames)

\* ------------------------------------------------- layers, fits, layout
IsAll(x) == IsStr(x) /\ x.str = AllName

\* Line 90 (the first component).
Skey(use_raw, ad) == IF use_raw \/ ~InSeq(Ms, ad.layers) THEN Spliced ELSE Ms

\* Lines 91-92.
ResolveLayers(lay, vkey, skey, ad) ==
  LET l0 == IF IsAll(lay) THEN <<vkey, skey>> ELSE lay.list
  IN  SelectSeq(l0, LAMBDA layer : InSeq(layer, ad.layers) \/ layer = X)

\* Lines 94-95.
ResolveFits(f, ad) ==
  LET f0 == IF IsAll(f) THEN ad.layers ELSE f.list
  IN  SelectSeq(f0, LAMBDA fit : fit = Dynamics \/ GammaKey(fit) \in ad.var)
        \o <<Dynamics>>

\* Line 96.
StochasticFits(fs, ad) ==
  SelectSeq(fs, LAMBDA fit : InSeq(VarianceLayer(fit), ad.layers))

\* Line 98.
Nplts(lays, md) == 1 + Len(lays) + (IF md = "stochastic" THEN 1 ELSE 0) * StochPanels

\* Line 99.
DefaultNcols(nc) == IF IsNone(nc) THEN 1 ELSE nc.int

\* The quotient truncated instead of rounded up.
NrowsTruncated(n, c) == n \div c

\* Line 100: int(np.ceil(len(var_names) / ncols)).
Nrows(n, c) == IF n % c = 0 THEN n \div c ELSE n \div c + 1

\* Line 101.
TotalCols(c, np) == c * np

\* --------------------------------------------------- grid addressing
PhasePos(i, np)     == i * np                 \* gs[v * nplts]
LayerPosNoSkip(i, np, l) == i * np + l    \* the phase portrait's slot not skipped
LayerPos(i, np, l)  == i * np + l + 1         \* gs[v * nplts + l + 1]
StochPos(i, np, nl) == i * np + nl + 1        \* gs[v * nplts + len(layers) + 1]

\* ---------------------------------------------------------- arguments
NoLabel == "<absent>"

\* Genes a caller names explicitly: two of the dataset and one that is not.
ExplicitGenes == {1, 2, AbsentGene}

VarNamesArgs ==
  {NoGenes} \cup {GeneStr(g) : g \in ExplicitGenes}
            \cup {GeneList(s) : s \in SeqUpTo(ExplicitGenes, MaxLen)}

GroupbyArgs == {NoKey, KeyStr("clusters"), KeyStr("batch"), KeyStr("nokey")}

GroupsArgs ==
  {NoName} \cup {NameStr(t) : t \in {<<"a">>, <<"c">>, <<"z">>, <<"g">>, <<"g", "g">>}}
           \cup {NameList(s) : s \in {<<>>, << <<"a">>, <<"c">> >>, << <<"z">> >>}}

\* Arguments read by lines 74-88.  A grouping subset is only read with a
\* valid grouping key, and var_names only without one.
SelectArgs ==
  [var_names : VarNamesArgs, groupby : {NoKey, KeyStr("nokey")}, groups : {NoName}]
    \cup [var_names : {NoGenes, GeneList(<<1>>)}, groupby : GroupbyArgs, groups : GroupsArgs]

\* Arguments read by lines 90-124.
PlanArgs ==
  [use_raw : BOOLEAN,
   layers  : {NameStr(AllName), NameList(<<X, <<"nolayer">> >>)},
   fits    : {NameList(<<Velocity, Dynamics>>), NameStr(AllName), NameList(<<>>)},
   mode    : {"none", "stochastic"},
   ncols   : {NoInt} \cup {IntArg(c) : c \in 1..MaxNcols},
   kwargs  : {[xlabel |-> NoLabel, ylabel |-> NoLabel],
              [xlabel |-> "custom_x", ylabel |-> "custom_y"]}]

NoArgs == [var_names |-> NoGenes, groups |-> NoName]
NoCall == [ncols |-> NoInt, kwargs |-> [xlabel |-> NoLabel, ylabel |-> NoLabel]]

\* --------------------------------------------------------------- Init
Init ==
  /\ \E d \in Datasets :
       adata = [layers |-> d.layers, var |-> d.var, stride |-> d.stride, uns |-> NoCache]
  /\ pc = "idle"
  /\ groupby = NoKey
  /\ rank_invoked = FALSE
  /\ args = NoArgs
  /\ picked = <<>>
  /\ var_names = <<>>
  /\ layers = <<>>
  /\ fits = <<>>
  /\ stochastic_fits = <<>>
  /\ mode = "none"
  /\ nplts = 0
  /\ nrows = 0
  /\ ncols = 0
  /\ call = NoCall
  /\ kwargs = [xlabel |-> NoLabel, ylabel |-> NoLabel]
  /\ v = 0
  /\ log = <<>>

\* ------------------------------------------------------------ actions
\* Lines 71-88 of an invocation on the dataset.
SelectGenes ==
  /\ pc = "idle"
  /\ \E a \in SelectArgs :
       LET valid == ValidGroupby(a.groupby)
           need  == valid /\ NeedRank(adata.uns, a.groupby.str)
           uns1  == IF need THEN rank_velocity_genes(adata, a.groupby.str) ELSE adata.uns
           res   == IF valid
                    THEN GroupSelect(uns1.names, a.groups, Categories(a.groupby.str))
                    ELSE IF ~IsNone(a.var_names)
                    THEN [raised |-> FALSE, picked |-> ExplicitSelect(a.var_names)]
                    ELSE [raised |-> TRUE, picked |-> <<>>]
       IN  /\ adata' = [adata EXCEPT !.uns = uns1]
           /\ rank_invoked' = need
           /\ groupby' = a.groupby
           /\ args' = [var_names |-> a.var_names, groups |-> a.groups]
           /\ picked' = res.picked
           /\ var_names' = IF res.raised THEN <<>> ELSE Unique(res.picked)
           /\ pc' = IF res.raised THEN "raised" ELSE "selected"
  /\ UNCHANGED <<layers, fits, stochastic_fits, mode, nplts, nrows, ncols, call, kwargs,
                 v, log>>

\* Lines 90-108: layers, fits and the grid.  With no gene selected the figure
\* and grid are asked for zero rows, which the plotting library either rejects
\* or accepts depending on its version; both leave the figure undrawn.
ResolveAndPlan ==
  /\ pc = "selected"
  /\ \E p \in PlanArgs :
       LET skey == Skey(p.use_raw, adata)
           lays == ResolveLayers(p.layers, Velocity, skey, adata)
           fs   == ResolveFits(p.fits, adata)
           np   == Nplts(lays, p.mode)
           c    == DefaultNcols(p.ncols)
       IN  /\ layers' = lays
           /\ fits' = fs
           /\ stochastic_fits' = StochasticFits(fs, adata)
           /\ mode' = p.mode
           /\ nplts' = np
           /\ nrows' = Nrows(Len(var_names), c)
           /\ ncols' = TotalCols(c, np)
           /\ call' = [ncols |-> p.ncols, kwargs |-> p.kwargs]
           /\ kwargs' = p.kwargs
  /\ \/ pc' = (IF Len(var_names) = 0 THEN "finalize" ELSE "render")
     \/ Len(var_names) = 0 /\ pc' = "raised"
  /\ rank_invoked' = FALSE
  /\ args' = NoArgs
  /\ picked' = <<>>
  /\ UNCHANGED <<adata, groupby, var_names, v, log>>

\* One render request: a scatter call or an overlay line on the current axes.
Render(kind, pos, gene, kw, names) ==
  [kind |-> kind, pos |-> pos, gene |-> gene,
   xlabel |-> kw.xlabel, ylabel |-> kw.ylabel, names |-> names]

\* Lines 120-121.
PhaseLabels(kw) ==
  [xlabel |-> IF kw.xlabel = NoLabel THEN "spliced" ELSE kw.xlabel,
   ylabel |-> IF kw.ylabel = NoLabel THEN "unspliced" ELSE kw.ylabel]

\* Lines 148-149.
StochLabels(kw) == [xlabel |-> "2 Sigma_s - <s>", ylabel |-> "2 Sigma_us + <u>"]

\* Lines 116-136: the phase portrait and the extra-layer panels of gene i.
GenePanels(i, var, kw) ==
  <<Render("phase", PhasePos(i, nplts), var, kw, fits)>>
    \o [l \in 1..Len(layers) |->
          Render("layer", LayerPos(i, nplts, l - 1), var, kw, <<layers[l]>>)]

\* Lines 143-159: the stochastic scatter, then one line per stochastic fit
\* drawn on the axes the scatter left current.
StochasticPanels(i, var, kw) ==
  <<Render("stochastic", StochPos(i, nplts, Len(layers)), var, kw, <<stochastic_fits[1]>>)>>
    \o [j \in 1..Len(stochastic_fits) |->
          Render("line", StochPos(i, nplts, Len(layers)), var, kw, <<stochastic_fits[j]>>)]

\* One iteration of the loop of line 110.
RenderGene ==
  /\ pc = "render"
  /\ LET var == var_names[v + 1]
         kw1 == PhaseLabels(kwargs)
         kw2 == StochLabels(kw1)
     IN  IF var \notin VarNames
         THEN \* adata[:, var] raises
              /\ pc' = "raised"
              /\ UNCHANGED <<kwargs, v, log>>
         ELSE IF mode # "stochastic"
         THEN /\ log' = log \o GenePanels(v, var, kw1)
              /\ kwargs' = kw1
              /\ v' = v + 1
              /\ pc' = IF v + 1 = Len(var_names) THEN "finalize" ELSE "render"
         ELSE IF stochastic_fits = <<>>
         THEN \* stochastic_fits[0] raises
              /\ log' = log \o GenePanels(v, var, kw1)
              /\ kwargs' = kw1
              /\ pc' = "raised"
              /\ UNCHANGED v
         ELSE /\ log' = log \o GenePanels(v, var, kw1) \o StochasticPanels(v, var, kw2)
              /\ kwargs' = kw2
              /\ v' = v + 1
              /\ pc' = IF v + 1 = Len(var_names) THEN "finalize" ELSE "render"
  /\ UNCHANGED <<adata, groupby, rank_invoked, args, picked, var_names, layers, fits,
                 stochastic_fits, mode, nplts, nrows, ncols, call>>

\* Line 161.
Finalize ==
  /\ pc = "finalize"
  /\ pc' = "done"
  /\ UNCHANGED <<adata, groupby, rank_invoked, args, picked, var_names, layers, fits,
                 stochastic_fits, mode, nplts, nrows, ncols, call, kwargs, v, log>>

\* Line 162, or the exception leaving the function: the transients of the
\* invocation are dropped; the dataset, with its ranking cache, stays.
Return ==
  /\ pc \in {"done", "raised"}
  /\ pc' = "idle"
  /\ rank_invoked' = FALSE
  /\ args' = NoArgs
  /\ picked' = <<>>
  /\ var_names' = <<>>
  /\ layers' = <<>>
  /\ fits' = <<>>
  /\ stochastic_fits' = <<>>
  /\ mode' = "none"
  /\ nplts' = 0
  /\ nrows' = 0
  /\ ncols' = 0
  /\ call' = NoCall
  /\ kwargs' = [xlabel |-> NoLabel, ylabel |-> NoLabel]
  /\ v' = 0
  /\ log' = <<>>
  /\ UNCHANGED <<adata, groupby>>

Next == SelectGenes \/ ResolveAndPlan \/ RenderGene \/ Finalize \/ Return

Spec == Init /\ [][Next]_vars

\* ------------------------------------------------------------- claims
NoDuplicates(s) == \A i, j \in 1..Len(s) : s[i] = s[j] => i = j
Elems(s) == {s[i] : i \in 1..Len(s)}
FirstIndex(x, s) == CHOOSE i \in 1..Len(s) : s[i] = x /\ \A j \in 1..(i - 1) : s[j] # x
Planned == pc \in {"render", "finalize", "done"}

\* C1: in explicit-list mode (no valid grouping key) the selected genes are the
\* input, a single string taken as a singleton list, filtered to the genes of
\* the dataset, deduplicated, first occurrences in order.
C1_ExplicitSelection ==
  (pc = "selected" /\ ~ValidGroupby(groupby)) =>
    LET inp  == IF IsStr(args.var_names) THEN <<args.var_names.str>> ELSE args.var_names.list
        kept == SelectSeq(inp, LAMBDA g : g \in VarNames)
    IN  /\ NoDuplicates(var_names)
        /\ Elems(var_names) = Elems(kept)
        /\ \A a, b \in Elems(kept) :
             FirstIndex(a, kept) < FirstIndex(b, kept)
               => FirstIndex(a, var_names) < FirstIndex(b, var_names)

\* The groups a subset matches, in group order, stated from the labels.
MatchingGroups(groups, cats) ==
  LET tokens == IF IsStr(groups) THEN <<groups.str>> ELSE groups.list
  IN  SelectSeq([i \in 1..Len(cats) |-> i],
                LAMBDA i : \E j \in 1..Len(tokens) : IsSubstr(tokens[j], cats[i]))

\* s holds, group after group of gs, the k top-ranked candidates of the group.
TopOfEach(s, gs, k, names) ==
  /\ Len(s) = Len(gs) * k
  /\ \A i \in 1..Len(gs) : \A j \in 1..k : s[(i - 1) * k + j] = names[gs[i]][j]

\* s is the stable-unique image of t.
StableUniqueOf(s, t) ==
  /\ NoDuplicates(s)
  /\ Elems(s) = Elems(t)
  /\ \A a, b \in Elems(t) :
       FirstIndex(a, t) < FirstIndex(b, t) => FirstIndex(a, s) < FirstIndex(b, s)

\* C2 (as claimed): with a valid grouping key the final selected sequence holds,
\* in group order, exactly the top candidate of every group when no subset is
\* requested, and exactly floor(10/m) candidates of each of the m matching
\* groups otherwise, whatever the ranking table.
C2_FinalHoldsTopOfEach ==
  (pc = "selected" /\ ValidGroupby(groupby)) =>
    LET cats == Categories(groupby.str)
        gs   == IF IsNone(args.groups) THEN [i \in 1..Len(cats) |-> i]
                ELSE MatchingGroups(args.groups, cats)
        k    == IF IsNone(args.groups) THEN 1 ELSE 10 \div Len(gs)
    IN  TopOfEach(var_names, gs, k, adata.uns.names)

\* C2 (amended): with a valid grouping key the sequence picked before the
\* stable-unique step holds, in group order, the top candidate of every group
\* (no subset) or floor(10/m) candidates of each of the m >= 1 matching groups;
\* the final sequence is its stable-unique image, hence equal to it when the
\* picked candidates are pairwise distinct; a subset matching no group raises.
C2_PickedHoldsTopOfEach ==
  /\ (pc = "selected" /\ ValidGroupby(groupby)) =>
       LET cats == Categories(groupby.str)
           gs   == IF IsNone(args.groups) THEN [i \in 1..Len(cats) |-> i]
                   ELSE MatchingGroups(args.groups, cats)
           k    == IF IsNone(args.groups) THEN 1 ELSE 10 \div Len(gs)
       IN  /\ Len(gs) >= 1
           /\ TopOfEach(picked, gs, k, adata.uns.names)
           /\ StableUniqueOf(var_names, picked)
           /\ NoDuplicates(picked) => var_names = picked
  /\ (pc = "raised" /\ ValidGroupby(groupby) /\ ~IsNone(args.groups)) =>
       Len(MatchingGroups(args.groups, Categories(groupby.str))) = 0

\* Two matching groups contribute 5 candidates each, some of them shared, and
\* the final sequence is shorter than the picked one.
C2_Witness ==
  /\ pc = "selected" /\ ValidGroupby(groupby) /\ ~IsNone(args.groups)
  /\ Len(MatchingGroups(args.groups, Categories(groupby.str))) = 2
  /\ Len(picked) = 10
  /\ Len(var_names) < 10

\* C3: once gene selection has finished without raising, the selected sequence
\* is non-empty, duplicate-free and made of genes of the dataset.
C3_SelectionNonEmptyPresent ==
  pc = "selected" =>
    /\ var_names # <<>>
    /\ NoDuplicates(var_names)
    /\ Elems(var_names) \subseteq VarNames

Occurrences(x, s) == Cardinality({i \in 1..Len(s) : s[i] = x})

\* C4: the fit names handed to the phase-portrait renderer hold "dynamics"
\* exactly once, and every other name has a <fit>_gamma parameter.
C4_DynamicsExactlyOnce ==
  \A i \in 1..Len(log) :
    log[i].kind = "phase" =>
      /\ Occurrences(Dynamics, log[i].names) = 1
      /\ \A j \in 1..Len(log[i].names) :
           log[i].names[j] # Dynamics => GammaKey(log[i].names[j]) \in adata.var

\* C5: stochastic mode without a stochastic-capable fit does not raise while a
\* gene of the dataset is being rendered.
C5_NoStochasticFitTolerated ==
  ~ /\ pc = "raised"
    /\ mode = "stochastic"
    /\ stochastic_fits = <<>>
    /\ v < Len(var_names)
    /\ var_names[v + 1] \in VarNames

\* C6: panels_per_gene = 1 + |extra layers| + (2 if stochastic), one value for
\* the invocation; total_columns = c * panels_per_gene and rows = ceil(n / c),
\* with c the caller's ncols, 1 when not given.
C6_LayoutArithmetic ==
  Planned =>
    LET c == IF IsNone(call.ncols) THEN 1 ELSE call.ncols.int
        n == Len(var_names)
    IN  /\ nplts = 1 + Len(layers) + (IF mode = "stochastic" THEN 2 ELSE 0)
        /\ ncols = c * nplts
        /\ nrows * c >= n
        /\ (nrows - 1) * c < n

\* A stochastic layout of three or more genes on two columns, the last row
\* partly filled.
C6_Witness ==
  /\ pc = "done"
  /\ mode = "stochastic"
  /\ ~IsNone(call.ncols) /\ call.ncols.int = 2
  /\ Len(var_names) >= 3 /\ Len(var_names) % 2 = 1
  /\ Len(layers) = 2
  /\ log # <<>>

\* C7: an invocation that raises has made no render call.
C7_RaisesBeforeAnyRender ==
  pc = "raised" => log = <<>>

\* C8: without a label override of the caller, every phase portrait is
\* requested with x = 'spliced', y = 'unspliced'.
C8_PhaseLabels ==
  (call.kwargs.xlabel = NoLabel /\ call.kwargs.ylabel = NoLabel) =>
    \A i \in 1..Len(log) :
      log[i].kind = "phase" =>
        log[i].xlabel = "spliced" /\ log[i].ylabel = "unspliced"

\* C9: every render of gene index i targets a position of
\* [i * panels_per_gene, (i+1) * panels_per_gene): the phase portrait at offset
\* 0, extra layer l at offset l+1, the stochastic scatter and its lines at
\* offset |extra layers|+1; every position is inside the grid; positions never
\* decrease, and two renders share a position only when the later one is an
\* overlay line of the stochastic panel of the same gene (so panels are drawn
\* in strictly increasing position order, gene-major and panel-minor).
C9_GeneMajorAddressing ==
  /\ \A i \in 1..Len(log) :
       LET e  == log[i]
           gi == FirstIndex(e.gene, var_names) - 1
       IN  /\ e.gene \in Elems(var_names)
           /\ e.pos >= gi * nplts
           /\ e.pos < (gi + 1) * nplts
           /\ e.pos < nrows * ncols
           /\ e.kind = "phase" => e.pos = gi * nplts
           /\ e.kind = "layer" =>
                /\ e.names[1] \in Elems(layers)
                /\ e.pos = gi * nplts + FirstIndex(e.names[1], layers)
           /\ e.kind \in {"stochastic", "line"} => e.pos = gi * nplts + Len(layers) + 1
  /\ \A i, j \in 1..Len(log) :
       i < j =>
         \/ log[i].pos < log[j].pos
         \/ /\ log[i].pos = log[j].pos
            /\ log[i].gene = log[j].gene
            /\ log[i].kind \in {"stochastic", "line"}
            /\ log[j].kind = "line"

\* A finished stochastic invocation of two or more genes with extra layers
\* and overlay lines.
C9_Witness ==
  /\ pc = "done"
  /\ mode = "stochastic"
  /\ Len(var_names) >= 2
  /\ Len(layers) = 2
  /\ \E i \in 1..Len(log) : log[i].kind = "line" /\ log[i].gene = var_names[Len(var_names)]

\* C10: the ranking collaborator is invoked only with a valid grouping key and
\* a cache that is missing or was made for another key; the second of two
\* consecutive invocations with the same valid key does not invoke it; an
\* invocation without a valid key never does; and of the dataset only the
\* cache ever changes, and only by an invocation of the collaborator.
C10_RankingCache ==
  [][ /\ rank_invoked' /\ pc = "idle" =>
           /\ ValidGroupby(groupby')
           /\ ~adata.uns.present \/ adata.uns.groupby # groupby'.str
      /\ (pc = "idle" /\ pc' # "idle" /\ ValidGroupby(groupby) /\ groupby' = groupby)
           => ~rank_invoked'
      /\ (pc = "idle" /\ pc' # "idle" /\ ~ValidGroupby(groupby')) => ~rank_invoked'
      /\ adata'.layers = adata.layers
      /\ adata'.var = adata.var
      /\ adata'.stride = adata.stride
      /\ adata'.uns # adata.uns => rank_invoked'
    ]_vars

\* An invocation in group-ranking mode served from the cache of an earlier one.
C10_Witness ==
  /\ pc = "selected"
  /\ ValidGroupby(groupby)
  /\ ~rank_invoked
  /\ adata.uns.present /\ adata.uns.groupby = groupby.str

====
